---- MODULE Spec2Model ----
(***************************************************************************)
(* Client side of BJJ-Trader's real-time distribution pipeline:            *)
(*   - throttle()            frontend/src/infrastructure/utils/throttle.ts *)
(*   - SocketService          (throttled adapter, README.md 166-275)       *)
(*   - useMarketData          (hook, throttle.ts 62-147)                   *)
(* Time is the value of Date.now() in milliseconds.  Server events reach    *)
(* the socket only while it is connected.  Optional values (null in the    *)
(* source) are sequences of length 0 or 1.                                 *)
(***************************************************************************)
EXTENDS Integers, Sequences, FiniteSets, TLC

\* ---------------------------------------------------------------- bounds
StartTime == 1000000      \* Date.now() when the page is loaded
Tick == 250               \* granularity of the clock
Horizon == 500            \* Spec: throttled input arrives only before StartTime + Horizon
HorizonD == 250           \* SpecChart, SpecSignals, FairSpec: the same
HorizonT == 1250          \* SpecThrottle: the same
MaxSwitches == 1          \* symbol switches of the dashboard
MaxDisconnects == 1       \* calls of SocketService.disconnect()
MaxAlerts == 2            \* new_alert events in SpecSignals
MaxAlertsLong == 52       \* new_alert events in SpecAlerts
MaxArrivals == 3          \* SpecRefine: events a registration receives
MaxListeners == 1         \* SpecDisconnect: listeners of a channel, for a direct registration

\* ------------------------------------------------------- program constants
PRICE_UPDATE_THROTTLE_MS == 500
INDICATORS_THROTTLE_MS == 1000
MaxSignals == 50
SL_MULT_X10 == 15         \* STOP_LOSS_ATR_MULTIPLIER 1.5, in tenths
TP_MULT_X10 == 20         \* TAKE_PROFIT_ATR_MULTIPLIER 2.0, in tenths

\* ------------------------------------------------------------ input sets
Symbols == {"EURUSD=X", "GBPUSD=X"}
Prices == {1, 3}
Atrs == {0, 1}
AlertPrices == {2}
SignalTypes == {"BUY", "SELL"}
Bar1 == [time |-> 1, open |-> 2, high |-> 2, low |-> 2, close |-> 2]
Bar2 == [time |-> 2, open |-> 2, high |-> 3, low |-> 1, close |-> 2]
ChartSnapshots == {<< >>, <<Bar1>>, <<Bar1, Bar2>>}
IndicatorValues == {[rsi |-> 25, trend |-> "UP"], [rsi |-> 75, trend |-> "DOWN"]}
Events == {"connect", "disconnect", "price_update", "chart_data", "new_alert", "indicators"}

MaxWrappers == 2 * (MaxSwitches + 1)
None == << >>
Some(x) == <<x>>
Min(a, b) == IF a < b THEN a ELSE b

VARIABLES
  clock,               \* Date.now()
  instance,            \* SocketService.instance: 0 (undefined) or the object's id
  constructed,         \* number of SocketService objects constructed
  streamService,       \* the hook module's constant: 0 before the module is loaded
  socket,              \* this.socket: 0 (null) or the socket's id
  connected,           \* socket.connected
  listeners,           \* the socket's listeners, per event, in registration order
  socketsCreated,      \* number of io() calls
  throttledCallbacks,  \* Map channel -> wrapper id (0: no entry)
  wrappers,            \* closures made by throttle(), by id
  phase,               \* "init", "mounted", "unmounted" (the component's life)
  symbol,              \* the selected symbol (the hook's argument)
  isConnected, chartData, currentPrice, signals, indicators,
  lastCandleRef, currentCandle,
  emitted,             \* request_data symbols emitted by the last step
  calls,               \* hook callbacks invoked by the last step, in order
  lastEvt,             \* the last step: its type, and the data of a chart_data or new_alert
  alertSeq,            \* number of new_alert events received so far
  nSwitch, nDisc,      \* symbol switches and disconnect() calls so far
  debounced,           \* the closure made by debounce(): None before it is made
  arrivals,            \* SpecRefine: per registration, what the unthrottled service delivers
  deliveries,          \* SpecRefine: per registration, what the throttled service delivers
  candleSince          \* the last bar the chart callback received, and the prices
                       \* the price callback received since (None: no bar yet)

vars == <<clock, instance, constructed, streamService, socket, connected, listeners,
          socketsCreated, throttledCallbacks, wrappers, phase, symbol, isConnected,
          chartData, currentPrice, signals, indicators, lastCandleRef, currentCandle,
          emitted, calls, lastEvt, alertSeq, nSwitch, nDisc, debounced,
          arrivals, deliveries, candleSince>>

\* The whole program state but the clock, as one record, so that a handler is
\* the composition of the calls it makes.  emitted and calls start empty in
\* every step.
Cur ==
  [socket |-> socket, connected |-> connected, listeners |-> listeners,
   socketsCreated |-> socketsCreated, throttledCallbacks |-> throttledCallbacks,
   wrappers |-> wrappers, phase |-> phase, isConnected |-> isConnected,
   chartData |-> chartData, currentPrice |-> currentPrice, signals |-> signals,
   indicators |-> indicators, lastCandleRef |-> lastCandleRef,
   currentCandle |-> currentCandle, emitted |-> << >>, calls |-> << >>]

\* A closure that no listener, map entry or timer refers to is garbage: it can
\* never run again, and its variables are forgotten.
Registered(S, id) ==
  \/ \E e \in Events : \E i \in DOMAIN S.listeners[e] : S.listeners[e][i].w = id
  \/ \E c \in DOMAIN S.throttledCallbacks : S.throttledCallbacks[c] = id
Collected(S) ==
  [id \in DOMAIN S.wrappers |->
     LET w == S.wrappers[id]
     IN IF w.timer = None /\ ~Registered(S, id)
          THEN [w EXCEPT !.lastTime = 0, !.lastInv = None, !.latest = None]
          ELSE w]

\* The record of what the chart and price callbacks were called with.
RECURSIVE ObserveCandle(_, _)
ObserveCandle(h, cs) ==
  IF cs = << >> THEN h
  ELSE LET c == Head(cs)
           h1 == IF c.fn = "onChartData" /\ c.v # << >>
                   THEN Some([bar |-> c.v[Len(c.v)], prices |-> {}, last |-> None])
                 ELSE IF c.fn = "onPriceUpdate" /\ h # None
                   THEN Some([h[1] EXCEPT !.prices = @ \cup {c.v.price},
                                          !.last = Some(c.v.price)])
                 ELSE h
       IN ObserveCandle(h1, Tail(cs))

Commit(S) ==
  /\ socket' = S.socket
  /\ connected' = S.connected
  /\ listeners' = S.listeners
  /\ socketsCreated' = S.socketsCreated
  /\ throttledCallbacks' = S.throttledCallbacks
  /\ wrappers' = Collected(S)
  /\ phase' = S.phase
  /\ isConnected' = S.isConnected
  /\ chartData' = S.chartData
  /\ currentPrice' = S.currentPrice
  /\ signals' = S.signals
  /\ indicators' = S.indicators
  /\ lastCandleRef' = S.lastCandleRef
  /\ currentCandle' = S.currentCandle
  /\ emitted' = S.emitted
  /\ calls' = S.calls
  /\ candleSince' = ObserveCandle(candleSince, S.calls)

NoListeners == [e \in Events |-> << >>]
NoCallbacks == [c \in {"price_update", "indicators"} |-> 0]
Listener(k, sym, w) == [k |-> k, sym |-> sym, w |-> w]

\* ------------------------------------------------------------- throttle()
\* A closure of throttle(func, wait): lastTime and timeoutId are its variables;
\* timer holds the pending setTimeout (its due time and the args its callback
\* captured).  lastInv (the time func was last invoked) and latest (the args
\* of the most recent call since func was last invoked) are history, read by
\* no operation.
NewWrapper(chan, wait) ==
  [chan |-> chan, wait |-> wait, lastTime |-> 0, timer |-> None,
   lastInv |-> None, latest |-> None]

\* Variants of the returned function with a slip: the leading call also sets
\* a timer with its args; the leading call leaves a pending timer in place.
ThrottledLeadingAlsoTrails(w, now, args) ==
  LET remaining == w.wait - (now - w.lastTime)
  IN IF remaining <= 0 \/ remaining > w.wait
       THEN [w |-> [w EXCEPT !.timer = Some([due |-> now + w.wait, args |-> args]),
                             !.lastTime = now],
             out |-> Some(args)]
     ELSE IF w.timer = None
       THEN [w |-> [w EXCEPT !.timer = Some([due |-> now + remaining, args |-> args])],
             out |-> None]
     ELSE [w |-> w, out |-> None]
ThrottledKeepsTimer(w, now, args) ==
  LET remaining == w.wait - (now - w.lastTime)
  IN IF remaining <= 0 \/ remaining > w.wait
       THEN [w |-> [w EXCEPT !.lastTime = now], out |-> Some(args)]
     ELSE IF w.timer = None
       THEN [w |-> [w EXCEPT !.timer = Some([due |-> now + remaining, args |-> args])],
             out |-> None]
     ELSE [w |-> w, out |-> None]

\* The returned function, called at time now with args: the wrapper's next
\* state and the args func is invoked with (None: func is not invoked).
Throttled(w, now, args) ==
  LET remaining == w.wait - (now - w.lastTime)
  IN IF remaining <= 0 \/ remaining > w.wait
       THEN [w |-> [w EXCEPT !.timer = None, !.lastTime = now], out |-> Some(args)]
     ELSE IF w.timer = None
       THEN [w |-> [w EXCEPT !.timer = Some([due |-> now + remaining, args |-> args])],
             out |-> None]
     ELSE [w |-> w, out |-> None]

\* Variants of the timer callback with a slip: lastTime is not refreshed; func
\* is not called.
TimerCallbackStaleLastTime(w, now) ==
  [w |-> [w EXCEPT !.timer = None], out |-> Some(w.timer[1].args)]
TimerCallbackDropsCall(w, now) ==
  [w |-> [w EXCEPT !.lastTime = now, !.timer = None], out |-> None]

\* The setTimeout callback of a pending wrapper, run at time now.
TimerCallback(w, now) ==
  [w |-> [w EXCEPT !.lastTime = now, !.timer = None], out |-> Some(w.timer[1].args)]

\* ------------------------------------------------------------- debounce()
DebounceWaits == {500, 1000}

\* A closure of debounce(func, wait): timeoutId is its variable (FALSE: null;
\* it is never reset to null); timer holds the pending setTimeout.  last (the
\* time and args of the most recent call, and whether it cancelled a pending
\* timer) and fired (invocations of func since that call) are history, read
\* by no operation.
NewDebounced(wait) ==
  [wait |-> wait, timeoutId |-> FALSE, timer |-> None, last |-> None, fired |-> 0]

\* Variant of the returned function that leaves a pending timer in place.
DebouncedKeepsTimer(d, now, args) ==
  IF d.timer # None THEN [d EXCEPT !.timeoutId = TRUE]
  ELSE [d EXCEPT !.timeoutId = TRUE,
                 !.timer = Some([due |-> now + d.wait, args |-> args])]

\* The returned function, called at time now with args: clearTimeout of the
\* pending timer, if any, and a new timer of wait ms.
Debounced(d, now, args) ==
  LET cleared == IF d.timeoutId THEN [d EXCEPT !.timer = None] ELSE d
  IN [cleared EXCEPT !.timeoutId = TRUE,
                     !.timer = Some([due |-> now + d.wait, args |-> args])]

\* The setTimeout callback: func(...args); the timer is spent.
DebounceTimerCallback(d) ==
  [d |-> [d EXCEPT !.timer = None], out |-> d.timer[1].args]

\* ------------------------------------------------- useMarketData callbacks
\* A state setter of an unmounted component changes nothing; refs stay writable.
Mounted(S) == S.phase = "mounted"
\* calls records a callback invocation: the callback, the wrapper it came
\* through (0: none), its argument, and for a wrapper the time since func was
\* last invoked (-1: never) and whether the args are the latest it received.
LogThrottled(S, fn, w, v, since, fresh) ==
  [S EXCEPT !.calls = Append(@, [fn |-> fn, w |-> w, v |-> v, since |-> since, fresh |-> fresh])]
LogCall(S, fn, v) == LogThrottled(S, fn, 0, v, -1, TRUE)

SetIsConnected(S, b) == IF Mounted(S) THEN [S EXCEPT !.isConnected = b] ELSE S

\* Variant of the candle update without the test of the low.
UpdatedCandleKeepsLow(c, price) ==
  LET u1 == [c EXCEPT !.close = price]
  IN IF price > u1.high THEN [u1 EXCEPT !.high = price] ELSE u1

UpdatedCandle(c, price) ==
  LET u1 == [c EXCEPT !.close = price]
      u2 == IF price > u1.high THEN [u1 EXCEPT !.high = price] ELSE u1
  IN IF price < u2.low THEN [u2 EXCEPT !.low = price] ELSE u2

OnPriceUpdateCb(S, price) ==
  LET S1 == IF Mounted(S) THEN [S EXCEPT !.currentPrice = price] ELSE S
  IN IF S1.lastCandleRef # None
       THEN LET updated == UpdatedCandle(S1.lastCandleRef[1], price)
            IN [S1 EXCEPT !.lastCandleRef = Some(updated),
                          !.currentCandle = IF Mounted(S) THEN Some(updated) ELSE @]
       ELSE S1

\* Variant of the chart handler that takes the first bar of the snapshot.
OnChartDataCbFirstBar(S, data) ==
  LET S1 == IF Mounted(S) THEN [S EXCEPT !.chartData = data] ELSE S
  IN IF Len(data) > 0
       THEN [S1 EXCEPT !.lastCandleRef = Some(data[1]),
                       !.currentCandle = IF Mounted(S) THEN Some(data[1]) ELSE @]
       ELSE S1

OnChartDataCb(S, data) ==
  LET S1 == IF Mounted(S) THEN [S EXCEPT !.chartData = data] ELSE S
  IN IF Len(data) > 0
       THEN [S1 EXCEPT !.lastCandleRef = Some(data[Len(data)]),
                       !.currentCandle = IF Mounted(S) THEN Some(data[Len(data)]) ELSE @]
       ELSE S1

\* Variant of the buffer update that keeps the oldest entries: [...prev, signal].
PushSignalAtEnd(prev, signal) == SubSeq(prev \o <<signal>>, 1, Min(Len(prev) + 1, MaxSignals))

\* [signal, ...prev].slice(0, 50)
PushSignal(prev, signal) == SubSeq(<<signal>> \o prev, 1, Min(Len(prev) + 1, MaxSignals))

OnNewAlertCb(S, signal) ==
  IF Mounted(S) THEN [S EXCEPT !.signals = PushSignal(@, signal)] ELSE S

OnIndicatorsCb(S, data) ==
  IF Mounted(S) THEN [S EXCEPT !.indicators = Some(data)] ELSE S

\* ----------------------------------------------------------- SocketService
\* func of the wrapper of a channel: (data) => callback(data.price) for
\* price_update, (data) => callback(data) for indicators.
PriceFunc(S, data) == OnPriceUpdateCb(S, data.price)
IndicatorsFunc(S, data) == OnIndicatorsCb(S, data)

\* What the callback of a channel is called with, for the event's data.
CallbackArg(chan, data) == IF chan = "price_update" THEN data.price ELSE data

\* The listener of the unthrottled service, (data) => callback(data.price) or
\* (data) => callback(data): log is what its callback has been called with.
UnthrottledListener(log, chan, data) == Append(log, CallbackArg(chan, data))

\* func(...args) of wrapper id, at time now.
InvokeFunc(S, id, now, data) ==
  LET w == S.wrappers[id]
      since == IF w.lastInv = None THEN -1 ELSE now - w.lastInv[1]
      fn == IF w.chan = "price_update" THEN "onPriceUpdate" ELSE "onIndicators"
      S1 == LogThrottled(S, fn, id, data, since, w.latest = Some(data))
      S2 == [S1 EXCEPT !.wrappers[id].lastInv = Some(now), !.wrappers[id].latest = None]
  IN IF w.chan = "price_update" THEN PriceFunc(S2, data) ELSE IndicatorsFunc(S2, data)

CallThrottled(S, id, now, args) ==
  LET r == Throttled(S.wrappers[id], now, args)
      S1 == [S EXCEPT !.wrappers[id] = [r.w EXCEPT !.latest = Some(args)]]
  IN IF r.out = None THEN S1 ELSE InvokeFunc(S1, id, now, r.out[1])

RequestData(S, sym) ==
  IF S.socket # 0 THEN [S EXCEPT !.emitted = Append(@, sym)] ELSE S

\* Variant of connect() without the test of this.socket.
ConnectAlwaysCreates(S, sym) ==
  [S EXCEPT !.socket = S.socketsCreated + 1,
            !.socketsCreated = @ + 1,
            !.connected = FALSE,
            !.listeners = [NoListeners EXCEPT
                             !["connect"] = <<Listener("requestData", sym, 0)>>]]

\* Variant of connect() without the test of this.socket.connected.
ConnectAlwaysRequests(S, sym) ==
  IF S.socket = 0
    THEN [S EXCEPT !.socket = S.socketsCreated + 1,
                   !.socketsCreated = @ + 1,
                   !.connected = FALSE,
                   !.listeners = [NoListeners EXCEPT
                                    !["connect"] = <<Listener("requestData", sym, 0)>>]]
  ELSE RequestData(S, sym)

Connect(S, sym) ==
  IF S.socket = 0
    THEN [S EXCEPT !.socket = S.socketsCreated + 1,
                   !.socketsCreated = @ + 1,
                   !.connected = FALSE,
                   !.listeners = [NoListeners EXCEPT
                                    !["connect"] = <<Listener("requestData", sym, 0)>>]]
  ELSE IF S.connected THEN RequestData(S, sym)
  ELSE S

AddListener(S, evt, l) ==
  IF S.socket # 0 THEN [S EXCEPT !.listeners[evt] = Append(@, l)] ELSE S

OnConnect(S) ==
  LET S1 == IF S.socket # 0 /\ S.connected
              THEN SetIsConnected(LogCall(S, "onConnect", 0), TRUE)
              ELSE S
  IN AddListener(S1, "connect", Listener("hookConnect", "", 0))

\* Variant of onDisconnect() that registers nothing.
OnDisconnectRegistersNothing(S) == S

OnDisconnect(S) == AddListener(S, "disconnect", Listener("hookDisconnect", "", 0))

AddThrottled(S, chan, wait) ==
  LET id == Len(S.wrappers) + 1
      S1 == [S EXCEPT !.wrappers = Append(@, NewWrapper(chan, wait)),
                      !.throttledCallbacks[chan] = id]
  IN AddListener(S1, chan, Listener("throttled", "", id))

OnPriceUpdate(S) == AddThrottled(S, "price_update", PRICE_UPDATE_THROTTLE_MS)
OnChartData(S) == AddListener(S, "chart_data", Listener("chart", "", 0))
OnNewAlert(S) == AddListener(S, "new_alert", Listener("alert", "", 0))
OnIndicators(S) == AddThrottled(S, "indicators", INDICATORS_THROTTLE_MS)

\* Variant of removeListeners() without socket.off("price_update").
RemoveListenersKeepsPrice(S) ==
  [S EXCEPT !.listeners = IF S.socket # 0
                            THEN [NoListeners EXCEPT !["price_update"] = S.listeners["price_update"]]
                            ELSE @,
            !.throttledCallbacks = NoCallbacks]

RemoveListeners(S) ==
  [S EXCEPT !.listeners = IF S.socket # 0 THEN NoListeners ELSE @,
            !.throttledCallbacks = NoCallbacks]

\* One listener of the socket, called with the event's data.
RunListener(S, l, data, now) ==
  CASE l.k = "requestData" -> RequestData(S, l.sym)
    [] l.k = "hookConnect" -> SetIsConnected(LogCall(S, "onConnect", 0), TRUE)
    [] l.k = "hookDisconnect" -> SetIsConnected(LogCall(S, "onDisconnect", 0), FALSE)
    [] l.k = "throttled" -> CallThrottled(S, l.w, now, data)
    [] l.k = "chart" -> OnChartDataCb(LogCall(S, "onChartData", data), data)
    [] l.k = "alert" -> OnNewAlertCb(LogCall(S, "onNewAlert", data), data)

RECURSIVE RunListeners(_, _, _, _)
RunListeners(S, ls, data, now) ==
  IF ls = << >> THEN S
  ELSE RunListeners(RunListener(S, Head(ls), data, now), Tail(ls), data, now)

\* The socket emits evt to its listeners, in registration order.
Dispatch(S, evt, data, now) == RunListeners(S, S.listeners[evt], data, now)

\* socket.disconnect() of socket.io emits "disconnect" when it was connected.
Disconnect(S, now) ==
  LET S1 == IF S.socket # 0
              THEN LET D == IF S.connected
                              THEN Dispatch([S EXCEPT !.connected = FALSE], "disconnect", 0, now)
                              ELSE S
                   IN [D EXCEPT !.socket = 0, !.connected = FALSE, !.listeners = NoListeners]
              ELSE S
  IN [S1 EXCEPT !.throttledCallbacks = NoCallbacks]

\* The body of useEffect (throttle.ts 76-124) and its cleanup (135).
Effect(S, sym) ==
  OnIndicators(OnNewAlert(OnChartData(OnPriceUpdate(OnDisconnect(OnConnect(Connect(S, sym)))))))
\* Variant of the cleanup that leaves the listeners in place.
CleanupKeepsListeners(S) == S
Cleanup(S) == RemoveListeners(S)

\* ------------------------------------------------ server side (Risk Calculator)
\* compute(type, price, atr, slMultiplier, tpMultiplier) of the bot, with the
\* default multipliers; prices of a signal are in tenths.  None: no levels,
\* the signal is dropped.
ComputeLevelsNotMirrored(type, price, atr) ==
  IF atr <= 0 THEN None
  ELSE Some([stopLoss |-> price * 10 - atr * SL_MULT_X10,
             takeProfit |-> price * 10 + atr * TP_MULT_X10])

ComputeLevels(type, price, atr) ==
  IF atr <= 0 THEN None
  ELSE IF type = "BUY"
    THEN Some([stopLoss |-> price * 10 - atr * SL_MULT_X10,
               takeProfit |-> price * 10 + atr * TP_MULT_X10])
    ELSE Some([stopLoss |-> price * 10 + atr * SL_MULT_X10,
               takeProfit |-> price * 10 - atr * TP_MULT_X10])

MakeSignal(sym, type, price, atr, time) ==
  LET lv == ComputeLevels(type, price, atr)
  IN IF lv = None THEN None
     ELSE Some([symbol |-> sym, type |-> type, price |-> price * 10,
                stopLoss |-> lv[1].stopLoss, takeProfit |-> lv[1].takeProfit,
                time |-> time, atr |-> atr * 10])

\* ------------------------------------------------------------------ Init
Init ==
  /\ clock = StartTime
  /\ instance = 0
  /\ constructed = 0
  /\ streamService = 0
  /\ socket = 0
  /\ connected = FALSE
  /\ listeners = NoListeners
  /\ socketsCreated = 0
  /\ throttledCallbacks = NoCallbacks
  /\ wrappers = << >>
  /\ phase = "init"
  /\ symbol = ""
  /\ isConnected = FALSE
  /\ chartData = << >>
  /\ currentPrice = 0
  /\ signals = << >>
  /\ indicators = None
  /\ lastCandleRef = None
  /\ currentCandle = None
  /\ emitted = << >>
  /\ calls = << >>
  /\ lastEvt = [type |-> "init", data |-> 0]
  /\ alertSeq = 0
  /\ nSwitch = 0
  /\ nDisc = 0
  /\ debounced = None
  /\ arrivals = [id \in 1..MaxWrappers |-> << >>]
  /\ deliveries = [id \in 1..MaxWrappers |-> << >>]
  /\ candleSince = None

InputOpen(h) == clock < StartTime + h
Online == socket # 0 /\ connected
PendingIds == {id \in DOMAIN wrappers : wrappers[id].timer # None}
DebouncePending == debounced # None /\ debounced[1].timer # None

\* --------------------------------------------------------------- actions
\* SocketService.getInstance(), as the modules that use the service call it
\* when they are loaded, before the component mounts.
GetInstance ==
  /\ phase = "init"
  /\ instance' = IF instance = 0 THEN constructed + 1 ELSE instance
  /\ constructed' = IF instance = 0 THEN constructed + 1 ELSE constructed
  /\ streamService' = instance'
  /\ lastEvt' = [type |-> "getInstance", data |-> 0]
  /\ emitted' = << >> /\ calls' = << >>
  /\ UNCHANGED <<candleSince, arrivals, deliveries, debounced, clock, socket, connected, listeners, socketsCreated, throttledCallbacks,
                 wrappers, phase, symbol, isConnected, chartData, currentPrice, signals,
                 indicators, lastCandleRef, currentCandle, alertSeq, nSwitch, nDisc>>

\* First run of the effect.
Mount(sym) ==
  /\ phase = "init" /\ streamService # 0
  /\ Commit(Effect([Cur EXCEPT !.phase = "mounted"], sym))
  /\ symbol' = sym
  /\ lastEvt' = [type |-> "mount", data |-> 0]
  /\ UNCHANGED <<arrivals, deliveries, debounced, clock, instance, constructed, streamService, alertSeq, nSwitch, nDisc>>

\* The symbol changes: cleanup of the old effect, then the effect again.
SymbolSwitch(sym) ==
  /\ phase = "mounted" /\ sym # symbol /\ nSwitch < MaxSwitches
  /\ Commit(Effect(Cleanup(Cur), sym))
  /\ symbol' = sym
  /\ nSwitch' = nSwitch + 1
  /\ lastEvt' = [type |-> "switch", data |-> 0]
  /\ UNCHANGED <<arrivals, deliveries, debounced, clock, instance, constructed, streamService, alertSeq, nDisc>>

Unmount ==
  /\ phase = "mounted"
  /\ Commit([Cleanup(Cur) EXCEPT !.phase = "unmounted"])
  /\ lastEvt' = [type |-> "unmount", data |-> 0]
  /\ UNCHANGED <<arrivals, deliveries, debounced, clock, instance, constructed, streamService, symbol, alertSeq, nSwitch, nDisc>>

\* SocketService.disconnect(), called by the application.
DisconnectCall ==
  /\ streamService # 0 /\ nDisc < MaxDisconnects
  /\ Commit(Disconnect(Cur, clock))
  /\ nDisc' = nDisc + 1
  /\ lastEvt' = [type |-> "disconnectCall", data |-> 0]
  /\ UNCHANGED <<arrivals, deliveries, debounced, clock, instance, constructed, streamService, symbol, alertSeq, nSwitch>>

\* SocketService.connect(symbol), called by a user of the service other than
\* the effect.
ConnectCall(sym) ==
  /\ streamService # 0
  /\ Commit(Connect(Cur, sym))
  /\ lastEvt' = [type |-> "connectCall", data |-> sym]
  /\ UNCHANGED <<arrivals, deliveries, debounced, clock, instance, constructed, streamService, symbol, alertSeq, nSwitch, nDisc>>

\* SocketService.requestData(symbol), called the same way.
RequestDataCall(sym) ==
  /\ streamService # 0
  /\ Commit(RequestData(Cur, sym))
  /\ lastEvt' = [type |-> "requestDataCall", data |-> sym]
  /\ UNCHANGED <<arrivals, deliveries, debounced, clock, instance, constructed, streamService, symbol, alertSeq, nSwitch, nDisc>>

\* An on<Event> method called the same way, with a callback like the hook's.
Registrations ==
  {"onConnect", "onDisconnect", "onPriceUpdate", "onChartData", "onNewAlert", "onIndicators"}
ChannelOf(k) ==
  CASE k = "onConnect" -> "connect"
    [] k = "onDisconnect" -> "disconnect"
    [] k = "onPriceUpdate" -> "price_update"
    [] k = "onChartData" -> "chart_data"
    [] k = "onNewAlert" -> "new_alert"
    [] k = "onIndicators" -> "indicators"
Register(S, k) ==
  CASE k = "onConnect" -> OnConnect(S)
    [] k = "onDisconnect" -> OnDisconnect(S)
    [] k = "onPriceUpdate" -> OnPriceUpdate(S)
    [] k = "onChartData" -> OnChartData(S)
    [] k = "onNewAlert" -> OnNewAlert(S)
    [] k = "onIndicators" -> OnIndicators(S)
RegisterCall(k) ==
  /\ streamService # 0
  /\ Len(listeners[ChannelOf(k)]) < MaxListeners
  /\ k \in {"onPriceUpdate", "onIndicators"} => Len(wrappers) < MaxWrappers
  /\ Commit(Register(Cur, k))
  /\ lastEvt' = [type |-> "registerCall", data |-> k]
  /\ UNCHANGED <<arrivals, deliveries, debounced, clock, instance, constructed, streamService, symbol, alertSeq, nSwitch, nDisc>>

\* SocketService.removeListeners(), called the same way.
RemoveListenersCall ==
  /\ streamService # 0
  /\ Commit(RemoveListeners(Cur))
  /\ lastEvt' = [type |-> "removeListenersCall", data |-> 0]
  /\ UNCHANGED <<arrivals, deliveries, debounced, clock, instance, constructed, streamService, symbol, alertSeq, nSwitch, nDisc>>

\* The transport connects or reconnects.
SocketConnect ==
  /\ socket # 0 /\ ~connected
  /\ Commit(Dispatch([Cur EXCEPT !.connected = TRUE], "connect", 0, clock))
  /\ lastEvt' = [type |-> "connect", data |-> 0]
  /\ UNCHANGED <<arrivals, deliveries, debounced, clock, instance, constructed, streamService, symbol, alertSeq, nSwitch, nDisc>>

\* The transport drops.
SocketDrop ==
  /\ Online
  /\ Commit(Dispatch([Cur EXCEPT !.connected = FALSE], "disconnect", 0, clock))
  /\ lastEvt' = [type |-> "disconnect", data |-> 0]
  /\ UNCHANGED <<arrivals, deliveries, debounced, clock, instance, constructed, streamService, symbol, alertSeq, nSwitch, nDisc>>

PriceUpdateStep(h, p) ==
  /\ Online /\ InputOpen(h)
  /\ Commit(Dispatch(Cur, "price_update", [price |-> p], clock))
  /\ lastEvt' = [type |-> "price_update", data |-> 0]
  /\ UNCHANGED <<debounced, clock, instance, constructed, streamService, symbol, alertSeq, nSwitch, nDisc>>

IndicatorsStep(h, d) ==
  /\ Online /\ InputOpen(h)
  /\ Commit(Dispatch(Cur, "indicators", d, clock))
  /\ lastEvt' = [type |-> "indicators", data |-> 0]
  /\ UNCHANGED <<debounced, clock, instance, constructed, streamService, symbol, alertSeq, nSwitch, nDisc>>

PriceUpdate(h, p) == PriceUpdateStep(h, p) /\ UNCHANGED <<arrivals, deliveries>>
IndicatorsEvent(h, d) == IndicatorsStep(h, d) /\ UNCHANGED <<arrivals, deliveries>>

ChartData(data) ==
  /\ Online
  /\ Commit(Dispatch(Cur, "chart_data", data, clock))
  /\ lastEvt' = [type |-> "chart_data", data |-> data]
  /\ UNCHANGED <<arrivals, deliveries, debounced, clock, instance, constructed, streamService, symbol, alertSeq, nSwitch, nDisc>>

\* The server emits the signal made of (sym, type, price, atr), if it has levels.
NewAlert(limit, sym, type, price, atr) ==
  LET sig == MakeSignal(sym, type, price, atr, alertSeq + 1)
  IN /\ Online /\ alertSeq < limit
     /\ sig # None
     /\ Commit(Dispatch(Cur, "new_alert", sig[1], clock))
     /\ alertSeq' = alertSeq + 1
     /\ lastEvt' = [type |-> "new_alert", data |-> sig[1]]
     /\ UNCHANGED <<arrivals, deliveries, debounced, clock, instance, constructed, streamService, symbol, nSwitch, nDisc>>

\* Time passes.  After the horizon it passes only while a timer is pending.
AdvanceClock(h) ==
  /\ \/ InputOpen(h)
     \/ \E id \in PendingIds : wrappers[id].timer[1].due > clock
     \/ DebouncePending /\ debounced[1].timer[1].due > clock
  /\ clock' = clock + Tick
  /\ lastEvt' = [type |-> "tick", data |-> 0]
  /\ emitted' = << >> /\ calls' = << >>
  /\ UNCHANGED <<candleSince, arrivals, deliveries, debounced, instance, constructed, streamService, socket, connected, listeners,
                 socketsCreated, throttledCallbacks, wrappers, phase, symbol, isConnected,
                 chartData, currentPrice, signals, indicators, lastCandleRef,
                 currentCandle, alertSeq, nSwitch, nDisc>>

\* A pending timer that is due runs its callback.
TimerStep(id) ==
  /\ id \in PendingIds /\ wrappers[id].timer[1].due <= clock
  /\ LET r == TimerCallback(wrappers[id], clock)
         S == [Cur EXCEPT !.wrappers[id] = r.w]
     IN Commit(IF r.out = None THEN S ELSE InvokeFunc(S, id, clock, r.out[1]))
  /\ lastEvt' = [type |-> "timer", data |-> 0]
  /\ UNCHANGED <<debounced, clock, instance, constructed, streamService, symbol, alertSeq, nSwitch, nDisc>>

TimerFire(id) == TimerStep(id) /\ UNCHANGED <<arrivals, deliveries>>

Timers == \E id \in DOMAIN wrappers : TimerFire(id)

\* The same steps with their record: the event reaches the listener the
\* unthrottled service would have registered in place of each wrapper; the
\* throttled service has delivered what the step's calls show.
Receivers(chan) ==
  {listeners[chan][i].w : i \in {j \in DOMAIN listeners[chan] : listeners[chan][j].k = "throttled"}}
RECURSIVE DeliveredTo(_, _)
DeliveredTo(id, cs) ==
  IF cs = << >> THEN << >>
  ELSE (IF Head(cs).w = id
          THEN <<CallbackArg(wrappers[id].chan, Head(cs).v)>> ELSE << >>)
       \o DeliveredTo(id, Tail(cs))
Recorded(chan, data) ==
  /\ arrivals' = [id \in DOMAIN arrivals |->
                    IF id \in Receivers(chan)
                      THEN UnthrottledListener(arrivals[id], chan, data) ELSE arrivals[id]]
  /\ deliveries' = [id \in DOMAIN deliveries |->
                      IF id \in DOMAIN wrappers
                        THEN deliveries[id] \o DeliveredTo(id, calls') ELSE deliveries[id]]
CanReceive(chan) == \A id \in Receivers(chan) : Len(arrivals[id]) < MaxArrivals

PriceUpdateRecorded(h, p) ==
  /\ CanReceive("price_update")
  /\ PriceUpdateStep(h, p)
  /\ Recorded("price_update", [price |-> p])
IndicatorsRecorded(h, d) ==
  /\ CanReceive("indicators")
  /\ IndicatorsStep(h, d)
  /\ Recorded("indicators", d)
TimersRecorded == \E id \in DOMAIN wrappers : TimerStep(id) /\ Recorded("connect", 0)

\* debounce(func, wait), called once by a user of the utility.
MakeDebounced(wait) ==
  /\ debounced = None
  /\ debounced' = Some(NewDebounced(wait))
  /\ lastEvt' = [type |-> "debounce", data |-> 0]
  /\ emitted' = << >> /\ calls' = << >>
  /\ UNCHANGED <<candleSince, arrivals, deliveries,
                 clock, instance, constructed, streamService, socket, connected, listeners,
                 socketsCreated, throttledCallbacks, wrappers, phase, symbol, isConnected,
                 chartData, currentPrice, signals, indicators, lastCandleRef,
                 currentCandle, alertSeq, nSwitch, nDisc>>

\* A call of the debounced function.
DebouncedCall(h, args) ==
  /\ debounced # None /\ InputOpen(h)
  /\ debounced' = Some([Debounced(debounced[1], clock, args) EXCEPT
                          !.last = Some([time |-> clock, args |-> args,
                                          cancelled |-> DebouncePending]),
                          !.fired = 0])
  /\ lastEvt' = [type |-> "debouncedCall", data |-> 0]
  /\ emitted' = << >> /\ calls' = << >>
  /\ UNCHANGED <<candleSince, arrivals, deliveries,
                 clock, instance, constructed, streamService, socket, connected, listeners,
                 socketsCreated, throttledCallbacks, wrappers, phase, symbol, isConnected,
                 chartData, currentPrice, signals, indicators, lastCandleRef,
                 currentCandle, alertSeq, nSwitch, nDisc>>

\* The pending timer of the debounced function is due and runs its callback.
DebounceTimerFire ==
  /\ DebouncePending /\ debounced[1].timer[1].due <= clock
  /\ LET r == DebounceTimerCallback(debounced[1])
         last == debounced[1].last[1]
     IN /\ debounced' = Some([r.d EXCEPT !.fired = @ + 1])
        /\ calls' = <<[fn |-> "debounced", w |-> 0, v |-> r.out,
                       since |-> clock - last.time, fresh |-> r.out = last.args]>>
  /\ lastEvt' = [type |-> "debounceTimer", data |-> 0]
  /\ emitted' = << >>
  /\ UNCHANGED <<candleSince, arrivals, deliveries,
                 clock, instance, constructed, streamService, socket, connected, listeners,
                 socketsCreated, throttledCallbacks, wrappers, phase, symbol, isConnected,
                 chartData, currentPrice, signals, indicators, lastCandleRef,
                 currentCandle, alertSeq, nSwitch, nDisc>>

\* Spec: the component's and the connection's life, with the price channel.
Next ==
  \/ GetInstance
  \/ \E sym \in Symbols : Mount(sym)
  \/ \E sym \in Symbols : SymbolSwitch(sym)
  \/ Unmount
  \/ DisconnectCall
  \/ SocketConnect
  \/ SocketDrop
  \/ \E p \in Prices : PriceUpdate(Horizon, p)
  \/ AdvanceClock(Horizon)
  \/ Timers

Spec == Init /\ [][Next]_vars

\* FairSpec: the price channel through a teardown, from the dashboard's
\* default symbol, under fairness: time passes, and the event loop runs a
\* timer callback that is due.
NextProgress ==
  \/ GetInstance
  \/ Mount("EURUSD=X")
  \/ \E sym \in Symbols : SymbolSwitch(sym)
  \/ Unmount
  \/ SocketConnect
  \/ \E p \in Prices : PriceUpdate(HorizonD, p)
  \/ AdvanceClock(HorizonD)
  \/ Timers

FairSpec ==
  /\ Init /\ [][NextProgress]_vars
  /\ WF_vars(AdvanceClock(HorizonD))
  /\ WF_vars(Timers)

\* SpecThrottle: one registration, the two throttled channels, a longer horizon.
NextThrottle ==
  \/ GetInstance
  \/ \E sym \in Symbols : Mount(sym)
  \/ SocketConnect
  \/ \E p \in Prices : PriceUpdate(HorizonT, p)
  \/ \E d \in IndicatorValues : IndicatorsEvent(HorizonT, d)
  \/ AdvanceClock(HorizonT)
  \/ Timers

SpecThrottle == Init /\ [][NextThrottle]_vars


\* SpecChart: chart snapshots beside the price channel.
NextChart ==
  \/ GetInstance
  \/ \E sym \in Symbols : Mount(sym)
  \/ \E sym \in Symbols : SymbolSwitch(sym)
  \/ SocketConnect
  \/ \E p \in Prices : PriceUpdate(HorizonD, p)
  \/ \E data \in ChartSnapshots : ChartData(data)
  \/ AdvanceClock(HorizonD)
  \/ Timers

SpecChart == Init /\ [][NextChart]_vars

\* SpecSignals: alerts beside the price channel.
NextSignals ==
  \/ GetInstance
  \/ \E sym \in Symbols : Mount(sym)
  \/ \E sym \in Symbols : SymbolSwitch(sym)
  \/ SocketConnect
  \/ \E p \in Prices : PriceUpdate(HorizonD, p)
  \/ \E sym \in Symbols, type \in SignalTypes, price \in AlertPrices, atr \in Atrs :
       NewAlert(MaxAlerts, sym, type, price, atr)
  \/ AdvanceClock(HorizonD)
  \/ Timers

SpecSignals == Init /\ [][NextSignals]_vars

\* SpecAlerts: a long run of alerts of one kind.
NextAlerts ==
  \/ GetInstance
  \/ \E sym \in Symbols : Mount(sym)
  \/ \E sym \in Symbols : SymbolSwitch(sym)
  \/ SocketConnect
  \/ SocketDrop
  \/ NewAlert(MaxAlertsLong, "EURUSD=X", "BUY", 2, 1)

SpecAlerts == Init /\ [][NextAlerts]_vars

\* SpecRefine: the throttled service beside the unthrottled one, for one
\* registration of each throttled channel, made by the hook with the
\* dashboard's default symbol.
NextRefine ==
  \/ GetInstance
  \/ Mount("EURUSD=X")
  \/ SocketConnect
  \/ \E p \in Prices : PriceUpdateRecorded(HorizonT, p)
  \/ \E d \in IndicatorValues : IndicatorsRecorded(HorizonT, d)
  \/ AdvanceClock(HorizonT)
  \/ TimersRecorded

SpecRefine == Init /\ [][NextRefine]_vars

\* SpecService: the methods of the service called directly, beside the hook.
NextService ==
  \/ GetInstance
  \/ \E sym \in Symbols : Mount(sym)
  \/ \E sym \in Symbols : SymbolSwitch(sym)
  \/ Unmount
  \/ \E sym \in Symbols : ConnectCall(sym)
  \/ \E sym \in Symbols : RequestDataCall(sym)
  \/ DisconnectCall
  \/ SocketConnect
  \/ SocketDrop

SpecService == Init /\ [][NextService]_vars

\* SpecDisconnect: the service through disconnect(), with direct registrations,
\* under a hook mounted with the dashboard's default symbol.
NextDisconnect ==
  \/ GetInstance
  \/ Mount("EURUSD=X")
  \/ \E sym \in Symbols : SymbolSwitch(sym)
  \/ \E sym \in Symbols : ConnectCall(sym)
  \/ \E sym \in Symbols : RequestDataCall(sym)
  \/ \E k \in Registrations : RegisterCall(k)
  \/ RemoveListenersCall
  \/ DisconnectCall
  \/ SocketConnect

SpecDisconnect == Init /\ [][NextDisconnect]_vars

\* SpecDebounce: the debounce() utility alone, under fairness: time passes,
\* and the event loop runs a timer callback that is due.
NextDebounce ==
  \/ \E wait \in DebounceWaits : MakeDebounced(wait)
  \/ \E args \in Prices : DebouncedCall(HorizonT, args)
  \/ DebounceTimerFire
  \/ AdvanceClock(HorizonT)

SpecDebounce ==
  /\ Init /\ [][NextDebounce]_vars
  /\ WF_vars(AdvanceClock(HorizonT))
  /\ WF_vars(DebounceTimerFire)

\* =================================================================== claims
ThrottledCalls == {i \in DOMAIN calls : calls[i].w # 0}
IsListener(id) == \E e \in Events : \E i \in DOMAIN listeners[e] : listeners[e][i].w = id

\* C1: whenever func of a throttle() wrapper is invoked, at least wait ms have
\* passed since the previous invocation of func by the same wrapper.
C1_MinSpacing ==
  \A i \in ThrottledCalls :
    calls[i].since = -1 \/ calls[i].since >= wrappers[calls[i].w].wait

\* A timer delivers on a wrapper that has delivered before.
C1_Witness ==
  /\ lastEvt.type = "timer"
  /\ \E i \in ThrottledCalls : calls[i].since >= wrappers[calls[i].w].wait

\* C2: a value delivered through a throttled channel is the most recent update
\* the channel has received (last value wins).
C2_LastValueWins == \A i \in ThrottledCalls : calls[i].fresh

\* C3: a price or indicators callback is invoked only through a wrapper that is
\* still attached to the socket: none is invoked after removeListeners() or
\* disconnect() has torn its registration down.
C3_NoDeliveryAfterTeardown == \A i \in ThrottledCalls : IsListener(calls[i].w)

\* C4: a wrapper that holds a pending update delivers: func of that wrapper is
\* invoked later on, whether or not a further update arrives.
C4_PendingIsDelivered ==
  \A id \in 1..MaxWrappers :
    (id \in PendingIds) ~> (\E i \in ThrottledCalls : calls[i].w = id)

\* A timer delivers a pending update after the input has ended.
C4_Witness ==
  /\ lastEvt.type = "timer" /\ ThrottledCalls # {}
  /\ clock >= StartTime + HorizonD /\ ~IsListener(calls[1].w)

\* C5: when the transport connects or reconnects under a mounted hook, the
\* client emits request_data with the selected symbol.
C5_ConnectRequestsSelected ==
  (lastEvt.type = "connect" /\ phase = "mounted") =>
    (emitted # << >> /\ \A i \in DOMAIN emitted : emitted[i] = symbol)

\* C9: getInstance() always returns the one instance; without disconnect() all
\* connect() calls share one socket, and a socket is created only when the
\* instance holds none (at most one more socket than disconnect() calls).
C9_SingleConnection ==
  /\ constructed <= 1
  /\ streamService # 0 => (constructed = 1 /\ streamService = instance)
  /\ socketsCreated <= nDisc + 1
  /\ socket # 0 => socket = socketsCreated
  /\ (phase # "init" /\ nDisc = 0) => (socketsCreated = 1 /\ socket = 1)

\* connect() has run twice on a connected socket, with no disconnect().
C9_Witness ==
  /\ nSwitch >= 1 /\ nDisc = 0 /\ connected
  /\ socketsCreated = 1 /\ lastEvt.type = "switch"

AlertCall(sig) == [fn |-> "onNewAlert", w |-> 0, v |-> sig, since |-> -1, fresh |-> TRUE]
ChartCall(data) == [fn |-> "onChartData", w |-> 0, v |-> data, since |-> -1, fresh |-> TRUE]

\* C6: a new_alert received while the alert listener is attached invokes the
\* alert callback exactly once in that step, and puts the signal in front of
\* the signals received before it.
C6_AlertsImmediate ==
  [][(lastEvt'.type = "new_alert" /\ listeners["new_alert"] # << >>) =>
       /\ calls' = <<AlertCall(lastEvt'.data)>>
       /\ signals' = SubSeq(<<lastEvt'.data>> \o signals, 1, Min(Len(signals) + 1, MaxSignals))]_vars

\* An alert is delivered while a throttled price update is pending, after a
\* symbol switch.
C6_Witness ==
  /\ lastEvt.type = "new_alert" /\ PendingIds # {} /\ nSwitch > 0
  /\ Len(signals) = 2 /\ signals[1] = lastEvt.data

\* C7: after n alerts the buffer holds the last min(n, 50) of them, the
\* latest first, in reverse order of arrival (time is the arrival number).
C7_BoundedNewestFirst ==
  /\ Len(signals) = Min(alertSeq, MaxSignals)
  /\ \A i \in DOMAIN signals : signals[i].time = alertSeq - i + 1

\* The buffer is full and has evicted its two oldest entries.
C7_Witness ==
  /\ alertSeq = MaxSignals + 2 /\ Len(signals) = MaxSignals
  /\ signals[MaxSignals].time = 3

\* C8: a chart_data received while the chart listener is attached invokes the
\* chart callback once in that step; chartData becomes the snapshot and the
\* current candle its last bar, or stays as it was for an empty snapshot.
C8_ChartImmediate ==
  [][(lastEvt'.type = "chart_data" /\ listeners["chart_data"] # << >>) =>
       LET data == lastEvt'.data
       IN /\ calls' = <<ChartCall(data)>>
          /\ chartData' = data
          /\ IF data # << >>
               THEN currentCandle' = Some(data[Len(data)]) /\ lastCandleRef' = currentCandle'
               ELSE currentCandle' = currentCandle /\ lastCandleRef' = lastCandleRef]_vars

\* A two-bar snapshot replaces a candle moved by a price update, while a
\* throttled price update is pending.
C8_Witness ==
  /\ lastEvt.type = "chart_data" /\ PendingIds # {}
  /\ chartData = <<Bar1, Bar2>> /\ currentCandle = Some(Bar2)
  /\ currentPrice # 0

\* C10: every signal in the buffer has its levels on the two sides of its
\* price: BUY stopLoss < price < takeProfit, SELL takeProfit < price < stopLoss.
C10_LevelsStraddlePrice ==
  \A i \in DOMAIN signals :
    LET g == signals[i]
    IN /\ g.type = "BUY" => (g.stopLoss < g.price /\ g.price < g.takeProfit)
       /\ g.type = "SELL" => (g.takeProfit < g.price /\ g.price < g.stopLoss)

\* The buffer holds a BUY and a SELL.
C10_Witness ==
  \E i, j \in DOMAIN signals : signals[i].type = "BUY" /\ signals[j].type = "SELL"

DebouncedCalls == {i \in DOMAIN calls : calls[i].fn = "debounced"}

\* C11: func of a debounce() wrapper is invoked only when at least wait ms
\* have passed since the most recent call of the wrapper, with the args of
\* that call, at most once after it; and a burst of calls is followed by an
\* invocation of func.
C11_DebounceTrailing ==
  /\ [](/\ \A i \in DebouncedCalls :
             calls[i].since >= debounced[1].wait /\ calls[i].fresh
        /\ debounced # None => debounced[1].fired <= 1)
  /\ DebouncePending ~> (DebouncedCalls # {})

\* func is invoked once, wait ms after the last call of a burst, a call that
\* cancelled the timer of the call before it.
C11_Witness ==
  /\ lastEvt.type = "debounceTimer" /\ debounced[1].fired = 1
  /\ calls[1].v = 3 /\ calls[1].since = debounced[1].wait
  /\ debounced[1].last[1].cancelled /\ debounced[1].last[1].time > StartTime

HookChannels == {"price_update", "chart_data", "new_alert", "indicators", "disconnect"}

\* C12: the socket holds at most one listener on each of the channels
\* price_update, chart_data, new_alert, indicators and disconnect, whatever
\* symbol switches have run, and an event of such a channel invokes at most one
\* hook callback in its step.
C12_NoDuplicateListeners ==
  /\ \A e \in HookChannels : Len(listeners[e]) <= 1
  /\ lastEvt.type \in HookChannels => Len(calls) <= 1

\* After a symbol switch every channel has its one listener, and a price
\* update invokes the price callback once.
C12_Witness ==
  /\ nSwitch >= 1 /\ lastEvt.type = "price_update" /\ Len(calls) = 1
  /\ \A e \in HookChannels : Len(listeners[e]) = 1

ProgramState ==
  <<instance, socket, connected, listeners, socketsCreated, throttledCallbacks, wrappers,
    phase, symbol, isConnected, chartData, currentPrice, signals, indicators,
    lastCandleRef, currentCandle>>

\* C13: connect(symbol) on an instance whose socket exists emits exactly one
\* request_data with that symbol and creates no socket when the socket is
\* connected (also in the effect of a symbol switch), and emits nothing and
\* changes no state when it is not.
C13_ConnectOnExistingSocket ==
  [][/\ (lastEvt'.type = "connectCall" /\ socket # 0) =>
          IF connected
            THEN /\ emitted' = <<lastEvt'.data>>
                 /\ UNCHANGED <<socket, socketsCreated, connected>>
            ELSE emitted' = << >> /\ UNCHANGED ProgramState
     /\ (lastEvt'.type = "switch" /\ socket # 0 /\ connected) =>
          /\ emitted' = <<symbol'>>
          /\ UNCHANGED <<socket, socketsCreated, connected>>]_vars

\* connect() with a symbol other than the selected one has emitted its
\* request_data on the connected socket the hook made.
C13_Witness ==
  /\ lastEvt.type = "connectCall" /\ connected /\ phase = "mounted"
  /\ lastEvt.data # symbol /\ emitted = <<lastEvt.data>>
  /\ socket = 1 /\ socketsCreated = 1

RECURSIVE IsSubsequence(_, _)
IsSubsequence(a, b) ==
  IF a = << >> THEN TRUE
  ELSE IF b = << >> THEN FALSE
  ELSE IF Head(a) = Head(b) THEN IsSubsequence(Tail(a), Tail(b))
  ELSE IsSubsequence(a, Tail(b))

\* C14: for every registration of a throttled channel, the values the
\* throttled service has delivered to the callback are, in order, a
\* subsequence of the values the unthrottled service delivers to it.
C14_ThrottledRefinesUnthrottled ==
  \A id \in DOMAIN deliveries : IsSubsequence(deliveries[id], arrivals[id])

\* A registration has delivered two different values, one by its timer, and
\* has dropped a value.
C14_Witness ==
  /\ lastEvt.type = "timer"
  /\ \E id \in DOMAIN deliveries :
       /\ Len(deliveries[id]) = 2 /\ Len(arrivals[id]) = 3
       /\ deliveries[id][1] # deliveries[id][2]

ThrottledChannels == {"price_update", "indicators"}

\* C15: an event that reaches a wrapper whose func was never invoked, or was
\* last invoked at least wait ms ago, invokes func once in that step with the
\* event's own args, and leaves no timer pending on the wrapper.
C15_LeadingEdge ==
  [][\A id \in DOMAIN wrappers :
       (/\ lastEvt'.type \in ThrottledChannels
        /\ id \in Receivers(lastEvt'.type)
        /\ \/ wrappers[id].lastInv = None
           \/ clock - wrappers[id].lastInv[1] >= wrappers[id].wait)
       => /\ Cardinality({i \in DOMAIN calls' : calls'[i].w = id}) = 1
          /\ \A i \in DOMAIN calls' : calls'[i].w = id => calls'[i].fresh
          /\ wrappers'[id].timer = None]_vars

\* A leading price update has been delivered in place of the held one, whose
\* late timer it cancelled.
C15_Witness ==
  /\ lastEvt.type = "price_update" /\ calls # << >>
  /\ LET id == calls[1].w
     IN /\ Len(arrivals[id]) = 3 /\ Len(deliveries[id]) = 2
        /\ deliveries[id][2] = arrivals[id][3] /\ arrivals[id][2] # arrivals[id][3]
        /\ wrappers[id].timer = None

MaxOf(s) == CHOOSE x \in s : \A y \in s : y <= x
MinOf(s) == CHOOSE x \in s : \A y \in s : x <= y
WellFormed(bar) == bar.low <= bar.close /\ bar.close <= bar.high

\* C16: while the hook is mounted the current candle is null until a bar has
\* been received; from then on, if the last bar received is well-formed, the
\* candle has that bar's time and open, the latest price delivered since as
\* close (the bar's close if none), the largest of the bar's high and those
\* prices as high, the smallest of the bar's low and those prices as low, and
\* so low <= close <= high.
C16_CandleWellFormed ==
  phase = "mounted" =>
    IF candleSince = None THEN currentCandle = None
    ELSE LET h == candleSince[1]
         IN WellFormed(h.bar) =>
              /\ currentCandle # None
              /\ currentCandle[1].time = h.bar.time
              /\ currentCandle[1].open = h.bar.open
              /\ currentCandle[1].close = (IF h.last = None THEN h.bar.close ELSE h.last[1])
              /\ currentCandle[1].high = MaxOf({h.bar.high} \cup h.prices)
              /\ currentCandle[1].low = MinOf({h.bar.low} \cup h.prices)
              /\ WellFormed(currentCandle[1])
              /\ lastCandleRef = currentCandle

\* Prices above and below the bar, the second one delivered by a timer, have
\* moved the candle both ways.
C16_Witness ==
  /\ candleSince # None /\ candleSince[1].bar = Bar1 /\ candleSince[1].prices = {1, 3}
  /\ currentCandle = Some([Bar1 EXCEPT !.close = 1, !.high = 3, !.low = 1])
  /\ lastEvt.type = "timer"

\* C17: while the hook is mounted, isConnected equals the connected state of
\* the socket (false while the service holds none) after every step.
C17_IsConnectedTracksTransport ==
  phase = "mounted" => (isConnected = (socket # 0 /\ connected))

\* The transport has dropped after a symbol switch, and the listener the
\* switch registered has cleared the flag.
C17_Witness ==
  /\ phase = "mounted" /\ nSwitch >= 1 /\ lastEvt.type = "disconnect"
  /\ socket # 0 /\ ~connected /\ ~isConnected
  /\ Len(calls) = 1 /\ calls[1].fn = "onDisconnect"

DataState == <<chartData, currentPrice, indicators, currentCandle, signals>>
\* No event has reached the price registration in force.
NoEventYet ==
  LET id == throttledCallbacks["price_update"]
  IN id # 0 /\ wrappers[id] = NewWrapper("price_update", PRICE_UPDATE_THROTTLE_MS)

\* C18: a symbol switch leaves chartData, currentPrice, indicators, the
\* current candle and the signals unchanged, they stay unchanged after it as
\* long as no event has reached the new registration, and the signals buffer
\* never loses its content.
C18_SwitchKeepsData ==
  [][/\ lastEvt'.type = "switch" => UNCHANGED DataState
     /\ (nSwitch >= 1 /\ NoEventYet /\ NoEventYet') => UNCHANGED DataState
     /\ Len(signals') >= Len(signals)]_vars

\* The switch step alone and the buffer: the data is unchanged by the step,
\* and the buffer never loses its content.
SwitchStepKeepsData ==
  [][/\ lastEvt'.type = "switch" => UNCHANGED DataState
     /\ Len(signals') >= Len(signals)]_vars

AfterDisconnect == nDisc >= 1 /\ socket = 0 /\ throttledCallbacks = NoCallbacks
DirectCalls == {"requestDataCall", "registerCall", "removeListenersCall"}

\* C19: disconnect() leaves the instance without socket and without throttled
\* callbacks; from then on requestData, every on<Event> registration and
\* removeListeners emit nothing, call nothing and change no state; and the
\* next connect(symbol) makes a new socket whose only listener is the connect
\* listener of that call.
C19_AfterDisconnectNoOps ==
  [][/\ lastEvt'.type = "disconnectCall" =>
          socket' = 0 /\ throttledCallbacks' = NoCallbacks
     /\ (AfterDisconnect /\ lastEvt'.type \in DirectCalls) =>
          emitted' = << >> /\ calls' = << >> /\ UNCHANGED ProgramState
     /\ (AfterDisconnect /\ lastEvt'.type \in {"connectCall", "switch"}) =>
          /\ socket' = socketsCreated + 1 /\ socketsCreated' = socketsCreated + 1
          /\ \A e \in Events : \A i \in DOMAIN listeners'[e] :
               listeners'[e][i].k = "requestData" \/ lastEvt'.type = "switch"
          /\ Len(listeners'["connect"]) = IF lastEvt'.type = "switch" THEN 2 ELSE 1]_vars

\* The same without the registrations of the two throttled channels.
AfterDisconnectOtherCallsNoOps ==
  [][/\ lastEvt'.type = "disconnectCall" =>
          socket' = 0 /\ throttledCallbacks' = NoCallbacks
     /\ (/\ AfterDisconnect /\ lastEvt'.type \in DirectCalls
         /\ lastEvt'.type = "registerCall" =>
               lastEvt'.data \notin {"onPriceUpdate", "onIndicators"}) =>
          emitted' = << >> /\ calls' = << >> /\ UNCHANGED ProgramState
     /\ (AfterDisconnect /\ lastEvt'.type \in {"connectCall", "switch"}) =>
          /\ socket' = socketsCreated + 1 /\ socketsCreated' = socketsCreated + 1
          /\ \A e \in Events : \A i \in DOMAIN listeners'[e] :
               listeners'[e][i].k = "requestData" \/ lastEvt'.type = "switch"
          /\ Len(listeners'["connect"]) = IF lastEvt'.type = "switch" THEN 2 ELSE 1]_vars

====
